---- MODULE Spec2Model ----
(***************************************************************************)
(* A model of EvidenceManager (evidence.py): the two LRU mappings, the     *)
(* running byte total, the cache directory and the operations on them.     *)
(*                                                                         *)
(* Abstractions, each stated where it is made:                             *)
(*  - byte counts are small integers (one unit is "some bytes");           *)
(*  - time.time() and file modification times are kept only as an order:   *)
(*    last_accessed is a rank, the directory listing is ordered by st_mtime;*)
(*  - every block id has one source PDF (handlers.py builds block_paths    *)
(*    from the block id), whose st_mtime is one of three concrete values;  *)
(*  - an I/O failure is an input of the call in which it happens.          *)
(***************************************************************************)
EXTENDS Integers, Sequences, FiniteSets, TLC

VARIABLES
    disk,                   \* the cache directory: files, oldest st_mtime first
    render_cache,           \* self._render_cache, an OrderedDict as a sequence
    crop_cache,             \* self._crop_cache
    current_cache_size,     \* self._current_cache_size
    max_cache_size_bytes,   \* self.max_cache_size_bytes, fixed at construction
    src,                    \* st_mtime of each block's source PDF
    faults,                 \* I/O failures met so far
    pc,                     \* "idle", or "gather" inside gather_evidence_for_rois
    g,                      \* the locals of gather_evidence_for_rois
    last,                   \* what the last completed call did and returned
    stats                   \* the locals of a get_cache_stats call in another thread

vars == <<disk, render_cache, crop_cache, current_cache_size,
          max_cache_size_bytes, src, faults, pc, g, last, stats>>

----------------------------------------------------------------------------
\* Bounds of the model.

\* longest ROI list handed to gather_evidence_for_rois
MaxRois == 2

\* pages of every source PDF (len(doc))
NumPages == 1

\* I/O failures in one behaviour
MaxFaults == 1

\* the running total is followed up to this value
MaxTotal == 10

\* largest width and height of an image whose pixel rectangle is computed
MaxSide == 24

Blocks == {"b1", "b2"}

\* st_mtime values of a source PDF, in seconds.  str() of the float is
\* "1700000000.0" and so on; the last two are a real pair whose md5 hex
\* digests share their first 8 characters.
Mtimes == {1700000000, 1700074703, 1700131342}

\* configured budgets (max_cache_size_mb * 1024 * 1024, in size units)
Budgets == {1, 6}

\* dpi values handed to render_pdf_page_to_png; RequestedROI.dpi is 72..600
Dpis == {50, 72}
RoiDpis == {72}

\* dpi values as render_pdf_page_to_png may be handed them: any integer
DpiInputs == {-5, 10, 72, 300, 600, 700, 900}

\* bounding boxes of the requested regions <<x0, y0, x1, y1>>, each normalised
\* coordinate in units of 1/100000
BBoxes == { <<10000, 10000, 50000, 50000>>,
            <<10004, 10000, 50000, 50000>> }

\* bounding boxes as crop_png may be handed them, valid or not:
\* <<x0, y0, x1, y1>> with x0 >= x1, y0 >= y1 and values outside [0, 1] among them
BoxInputs ==
    {<<x0, y0, x1, y1>> : x0 \in {-10000, 10000, 60000, 90000},
                          y0 \in {10000, 90000},
                          x1 \in {20000, 90000, 120000},
                          y1 \in {90000, 100000}}

\* st_mtime values the source PDF of a block takes
SourceMtimes(b) == IF b = "b1" THEN Mtimes ELSE {1700000000}

\* actual size of a written PNG (stat().st_size after the write): the pages of
\* b1 compress below the estimate, those of b2 do not
FileSizes(dir, block) ==
    IF dir = "renders" THEN (IF block = "b1" THEN {2} ELSE {4}) ELSE {1}

\* pixmap.width * pixmap.height * 3, resp. (right-left)*(bottom-top)*3
EstimatedSize(dir) == IF dir = "renders" THEN 3 ELSE 1

\* the I/O failure a call meets (at most one per call), [kind, path]:
\*   render_save  pixmap.save raises            (evidence.py:276)
\*   crop_open    Image.open raises             (evidence.py:368)
\*   crop_save    cropped.save raises           (evidence.py:390)
\*   unlink       Path.unlink of the file `path` raises OSError
FaultKinds == {"none", "render_save", "crop_open", "crop_save"}

----------------------------------------------------------------------------
\* Helpers.

Max(a, b) == IF a >= b THEN a ELSE b
Min(a, b) == IF a <= b THEN a ELSE b

Range(s) == {s[i] : i \in 1..Len(s)}

\* F(e), with e evaluated once
Let1(e, F(_)) == CHOOSE y \in {F(x) : x \in {e}} : TRUE

RECURSIVE SumSizes(_)
SumSizes(s) == IF s = <<>> THEN 0 ELSE Head(s).size_bytes + SumSizes(Tail(s))

NoPath == [dir |-> "none", block |-> "", page |-> 0, dpi |-> 0,
           ver |-> "", box |-> <<>>]

----------------------------------------------------------------------------
\* The file system under cache_dir: a set of files [path, size, mtime, origin].
\* origin is what the image shows: the st_mtime of the source version a page
\* was rendered from, and for a crop the origin of the page it was cut from.
\* st_mtime is read only by cleanup_old_versions, which compares render files of
\* one base key, so it is kept as a rank among those (0 for a crop file).

path_exists(d, path) == \E f \in d : f.path = path

st_size(d, path) == (CHOOSE f \in d : f.path = path).size

unlink(d, path) == {f \in d : f.path # path}

\* the paths a directory listing yields
PathsOn(d) == {f.path : f \in d}

\* png_file.stem.rsplit("_v", 1)[0] of a render file
base_key(path) == <<path.block, path.page, path.dpi>>

SameGroup(p, q) == p.dir = "renders" /\ q.dir = "renders" /\ base_key(p) = base_key(q)

origin_of(d, path) == (CHOOSE f \in d : f.path = path).origin

write_file(d, path, size, origin) ==
    LET rest == unlink(d, path)
        older == {f \in rest : SameGroup(f.path, path)}
    IN  rest \cup {[path |-> path, size |-> size,
                    mtime |-> IF path.dir = "renders" THEN Cardinality(older) + 1 ELSE 0,
                    origin |-> origin]}

\* the st_mtime ranks after files were removed
CompactDisk(d) ==
    {[f EXCEPT !.mtime = IF f.path.dir = "renders"
                         THEN Cardinality({h \in d : SameGroup(h.path, f.path)
                                                     /\ h.mtime <= f.mtime})
                         ELSE 0] : f \in d}

----------------------------------------------------------------------------
\* OrderedDict.  An entry is a CacheEntry with its key: [key, path, size_bytes,
\* last_accessed]; created_at and source_mtime are written and never read.

has_key(cache, key) == \E i \in 1..Len(cache) : cache[i].key = key

get_item(cache, key) == LET i == CHOOSE j \in 1..Len(cache) : cache[j].key = key IN cache[i]

\* cache[key] = entry: a new key goes to the end, an existing key keeps its place
set_item(cache, key, entry) ==
    IF has_key(cache, key)
    THEN [i \in 1..Len(cache) |-> IF cache[i].key = key THEN entry ELSE cache[i]]
    ELSE Append(cache, entry)

move_to_end(cache, key) ==
    Append(SelectSeq(cache, LAMBDA e : e.key # key), get_item(cache, key))

\* variant: _touch_cache_entry without move_to_end
touch_cache_entry_in_place(cache, key) == cache

touch_cache_entry(cache, key) ==
    IF has_key(cache, key) THEN move_to_end(cache, key) ELSE cache

\* entry.last_accessed = time.time() on the entry of `key`
set_last_accessed(cache, key, t) ==
    [i \in 1..Len(cache) |->
        IF cache[i].key = key THEN [cache[i] EXCEPT !.last_accessed = t] ELSE cache[i]]

CacheEntry(key, path, size, t) ==
    [key |-> key, path |-> path, size_bytes |-> size, last_accessed |-> t]

----------------------------------------------------------------------------
\* The manager's state as one value, threaded through the calls:
\*   disk, rc (_render_cache), cc (_crop_cache), total (_current_cache_size),
\* and records of what the call did: ev (evictions), wr (files written),
\* fl (the call met its I/O failure), box (the corrected bounding box of a
\* crop_png call), rect (the pixel rectangle it cut) and reserved (what held
\* when the call reached its save: the size estimate, the running total, the
\* number of tracked entries).

Times(cache) == {cache[i].last_accessed : i \in 1..Len(cache)}

MaxOf(S) == IF S = {} THEN 0 ELSE CHOOSE t \in S : \A u \in S : u <= t

\* time.time(): later than every timestamp taken before
now(s) == 1 + Max(MaxOf(Times(s.rc)), MaxOf(Times(s.cc)))

\* Timestamps are only compared, and only within one mapping, so each mapping
\* stores them as ranks.
Ranked(cache) ==
    [i \in 1..Len(cache) |->
        [cache[i] EXCEPT !.last_accessed =
            Cardinality({u \in Times(cache) : u <= cache[i].last_accessed})]]

Compact(s) ==
    [s EXCEPT !.rc = Ranked(s.rc), !.cc = Ranked(s.cc), !.disk = CompactDisk(s.disk)]

----------------------------------------------------------------------------
\* Cache keys and file names.

\* hashlib.md5(str(source_mtime).encode()).hexdigest()[:8]
mtime_hash(m) ==
    CASE m = 1700000000 -> "a9752e41"
      [] m = 1700074703 -> "28b38d77"
      [] m = 1700131342 -> "28b38d77"

\* renders_dir / f"{block_id}_p{page}_d{dpi}_v{mtime_hash}.png"
get_versioned_cache_key(block_id, page, dpi, source_mtime) ==
    [dir |-> "renders", block |-> block_id, page |-> page, dpi |-> dpi,
     ver |-> mtime_hash(source_mtime), box |-> <<>>]

\* f"{x:.4f}" of a coordinate: rounded to 4 decimals (units of 10)
fmt4(x) == (x + 5) \div 10

\* crops_dir / f"{block_id}_p{page}_d{dpi}_crop_{x0:.4f}_{y0:.4f}_{x1:.4f}_{y1:.4f}.png"
get_crop_key(block_id, page, bbox, dpi) ==
    [dir |-> "crops", block |-> block_id, page |-> page, dpi |-> dpi,
     ver |-> "", box |-> <<fmt4(bbox[1]), fmt4(bbox[2]), fmt4(bbox[3]), fmt4(bbox[4])>>]

\* variant: an inverted range is swapped instead of widened to (0, 1)
corrected_bbox_swapped(bbox) ==
    LET c(v) == Max(0, Min(100000, v))
        x0 == c(bbox[1])
        y0 == c(bbox[2])
        x1 == c(bbox[3])
        y1 == c(bbox[4])
    IN  << Min(x0, x1), Min(y0, y1), Max(x0, x1), Max(y0, y1) >>

\* variant: the dpi used as it was handed in
clamp_dpi_unclamped(dpi) == dpi

\* the clamping and the x0 >= x1 / y0 >= y1 correction of crop_png
corrected_bbox(bbox) ==
    LET c(v) == Max(0, Min(100000, v))
        x0 == c(bbox[1])
        y0 == c(bbox[2])
        x1 == c(bbox[3])
        y1 == c(bbox[4])
    IN  << IF x0 >= x1 THEN 0 ELSE x0,
           IF y0 >= y1 THEN 0 ELSE y0,
           IF x0 >= x1 THEN 100000 ELSE x1,
           IF y0 >= y1 THEN 100000 ELSE y1 >>

\* "dpi = max(72, min(600, dpi))"
clamp_dpi(dpi) == Max(72, Min(600, dpi))

----------------------------------------------------------------------------
\* _evict_lru_files.  Each eviction is recorded in s.ev with what held at that
\* moment: how many crop entries were tracked, and how many entries of the same
\* mapping had an older last_accessed than the evicted one.

EvictionRecord(s, cache, entry, which) ==
    [cache |-> which,
     path |-> entry.path,
     size_bytes |-> entry.size_bytes,
     crops_tracked |-> Len(s.cc),
     older_tracked |-> Cardinality({i \in 1..Len(cache) :
                          cache[i].last_accessed < entry.last_accessed}),
     existed |-> path_exists(s.disk, entry.path),
     total_before |-> s.total]

UnlinkFails(fault, path) == fault.kind = "unlink" /\ fault.path = path

\* variant: the loop body without "self._current_cache_size -= entry.size_bytes"
evict_entry_untracked(s, entry, fault) ==
    IF ~path_exists(s.disk, entry.path) THEN s
    ELSE IF UnlinkFails(fault, entry.path) THEN [s EXCEPT !.fl = TRUE]
    ELSE [s EXCEPT !.disk = unlink(s.disk, entry.path)]

\* the body of both while loops, after popitem(last=False) returned `entry`
evict_entry(s, entry, fault) ==
    IF ~path_exists(s.disk, entry.path) THEN s
    ELSE IF UnlinkFails(fault, entry.path) THEN [s EXCEPT !.fl = TRUE]
    ELSE [s EXCEPT !.disk = unlink(s.disk, entry.path),
                   !.total = s.total - entry.size_bytes]

\* key, entry = self._crop_cache.popitem(last=False), and the loop body
pop_crop(s, fault) ==
    evict_entry([s EXCEPT !.cc = Tail(s.cc),
                          !.ev = Append(s.ev, EvictionRecord(s, s.cc, Head(s.cc), "crop"))],
                Head(s.cc), fault)

pop_render(s, fault) ==
    evict_entry([s EXCEPT !.rc = Tail(s.rc),
                          !.ev = Append(s.ev, EvictionRecord(s, s.rc, Head(s.rc), "render"))],
                Head(s.rc), fault)

RECURSIVE evict_crops(_, _, _)
evict_crops(s, target_size, fault) ==
    IF s.total > target_size /\ s.cc # <<>>
    THEN Let1(pop_crop(s, fault), LAMBDA s1 : evict_crops(s1, target_size, fault))
    ELSE s

RECURSIVE evict_renders(_, _, _)
evict_renders(s, target_size, fault) ==
    IF s.total > target_size /\ s.rc # <<>>
    THEN Let1(pop_render(s, fault), LAMBDA s1 : evict_renders(s1, target_size, fault))
    ELSE s

\* variant: _evict_lru_files without its second loop
evict_lru_files_crops_only(s, needed_bytes, fault) ==
    evict_crops(s, max_cache_size_bytes - needed_bytes, fault)

evict_lru_files(s, needed_bytes, fault) ==
    Let1(evict_crops(s, max_cache_size_bytes - needed_bytes, fault),
         LAMBDA s1 : evict_renders(s1, max_cache_size_bytes - needed_bytes, fault))

\* variant: every write first evicts down to an empty cache
reserve_everything(s, estimated_size, fault) ==
    evict_lru_files(s, max_cache_size_bytes, fault)

\* variant: a write that never calls _evict_lru_files
reserve_nothing(s, estimated_size, fault) == s

\* "if self._current_cache_size + estimated_size > self.max_cache_size_bytes"
reserve(s, estimated_size, fault) ==
    IF s.total + estimated_size > max_cache_size_bytes
    THEN evict_lru_files(s, estimated_size, fault)
    ELSE s

----------------------------------------------------------------------------
\* render_pdf_page_to_png.  A call returns [s, ok, path, how]: the state it
\* leaves, whether it returned (ok) or raised, the returned path, and how it
\* ended ("hit", "adopt", "render", or the exception).
\*   pdf_exists  pdf_path.exists() at the call
\*   fault       the I/O failure of this call, size: st_size of a written file

\* variant: a call that fails when it leaves the running total above the budget
Returned_within_budget(s, path, how) ==
    IF s.total > max_cache_size_bytes
    THEN [s |-> s, ok |-> FALSE, path |-> NoPath, how |-> "budget"]
    ELSE [s |-> s, ok |-> TRUE, path |-> path, how |-> how]

Returned(s, path, how) == [s |-> s, ok |-> TRUE, path |-> path, how |-> how]
Raised(s, how) == [s |-> s, ok |-> FALSE, path |-> NoPath, how |-> how]

NoReservation == [estimate |-> 0, total |-> 0, entries |-> 0]

\* the state in which pixmap.save / cropped.save is called
at_save(s, estimated_size) ==
    [s EXCEPT !.reserved = [estimate |-> estimated_size, total |-> s.total,
                            entries |-> Len(s.rc) + Len(s.cc)]]

\* variant: the exception of the save is swallowed and the call returns
save_failed_swallowed(s) == Returned([s EXCEPT !.fl = TRUE], NoPath, "save")

\* pixmap.save / cropped.save raised: nothing after it runs, the exception
\* leaves the call
save_failed(s) == Raised([s EXCEPT !.fl = TRUE], "save")

\* variant: the in-memory lookup never answers
cache_hit_never(cache, d, key) == FALSE

\* "if key in cache: entry = cache[key]; if entry.path.exists():"
cache_hit(cache, d, key) ==
    has_key(cache, key) /\ path_exists(d, get_item(cache, key).path)

\* variant: the page is rendered without the range check
page_out_of_range_unchecked(page) == FALSE

\* "if page >= len(doc)"
page_out_of_range(page) == page >= NumPages

render_pdf_page_to_png(s, pdf_exists, block_id, page, dpi_in, fault, size) ==
    LET dpi == clamp_dpi(dpi_in)
        source_mtime == src[block_id]
        cache_key == <<block_id, page, dpi, source_mtime>>
        png_path == get_versioned_cache_key(block_id, page, dpi, source_mtime)
    IN
    IF ~pdf_exists THEN Raised(s, "FileNotFoundError")
    ELSE IF cache_hit(s.rc, s.disk, cache_key)
    THEN Returned(
            [s EXCEPT !.rc = set_last_accessed(
                                touch_cache_entry(s.rc, cache_key), cache_key, now(s))],
            get_item(s.rc, cache_key).path, "hit")
    ELSE IF path_exists(s.disk, png_path)
    THEN Returned(
            [s EXCEPT !.rc = set_item(s.rc, cache_key,
                                CacheEntry(cache_key, png_path,
                                           st_size(s.disk, png_path), now(s))),
                      !.total = s.total + st_size(s.disk, png_path)],
            png_path, "adopt")
    ELSE IF page_out_of_range(page) THEN Raised(s, "ValueError")
    ELSE Let1(at_save(reserve(s, EstimatedSize("renders"), fault),
                      EstimatedSize("renders")), LAMBDA s1 :
             IF fault.kind = "render_save" THEN save_failed(s1)
             ELSE Returned(
                    [s1 EXCEPT !.disk = write_file(s1.disk, png_path, size, source_mtime),
                               !.wr = Append(s1.wr, png_path),
                               !.rc = set_item(s1.rc, cache_key,
                                         CacheEntry(cache_key, png_path, size, now(s1))),
                               !.total = s1.total + size],
                    png_path, "render"))

----------------------------------------------------------------------------
\* The pixel rectangle of a crop.  Coordinates are in units of 1/100000, so
\* int(x * width) is the integer quotient below.

\* "width, height = img.size" of the full-page image of a block
image_size(png_path) ==
    IF png_path.block = "b1" THEN <<20, 30>> ELSE <<10, 10>>

to_pixels(x, extent) == (x * extent) \div 100000

\* variant: the minimum-size adjustment without the clamp to the image bounds
pixel_rect_unclamped(box, width, height) ==
    LET left == to_pixels(box[1], width)
        top == to_pixels(box[2], height)
        right == to_pixels(box[3], width)
        bottom == to_pixels(box[4], height)
    IN  <<left, top,
          IF right - left < 10 THEN left + 10 ELSE right,
          IF bottom - top < 10 THEN top + 10 ELSE bottom>>

\* <<left, top, right, bottom>> after "if right - left < 10: right =
\* min(left + 10, width)" and the same for bottom
pixel_rect(box, width, height) ==
    LET left == to_pixels(box[1], width)
        top == to_pixels(box[2], height)
        right == to_pixels(box[3], width)
        bottom == to_pixels(box[4], height)
    IN  <<left, top,
          IF right - left < 10 THEN Min(left + 10, width) ELSE right,
          IF bottom - top < 10 THEN Min(top + 10, height) ELSE bottom>>

----------------------------------------------------------------------------
\* crop_png.  The source image is opened before the eviction and read through
\* the open file, so an eviction that unlinks png_path does not fail the crop.

crop_png(s, png_path, bbox_norm, block_id, page, dpi, fault, size) ==
    LET box == corrected_bbox(bbox_norm)
        crop_path == get_crop_key(block_id, page, box, dpi)
        crop_name == crop_path
        img == image_size(png_path)
    IN
    IF ~path_exists(s.disk, png_path) THEN Raised(s, "FileNotFoundError")
    ELSE IF cache_hit(s.cc, s.disk, crop_name)
    THEN Returned(
            [s EXCEPT !.cc = set_last_accessed(
                                touch_cache_entry(s.cc, crop_name), crop_name, now(s)),
                      !.box = box],
            get_item(s.cc, crop_name).path, "hit")
    ELSE IF path_exists(s.disk, crop_path)
    THEN Returned(
            [s EXCEPT !.cc = set_item(s.cc, crop_name,
                                CacheEntry(crop_name, crop_path,
                                           st_size(s.disk, crop_path), now(s))),
                      !.total = s.total + st_size(s.disk, crop_path),
                      !.box = box],
            crop_path, "adopt")
    ELSE IF fault.kind = "crop_open"
    THEN Raised([s EXCEPT !.fl = TRUE, !.box = box], "open")
    ELSE Let1(at_save(reserve([s EXCEPT !.box = box,
                                        !.rect = pixel_rect(box, img[1], img[2])],
                              EstimatedSize("crops"), fault),
                      EstimatedSize("crops")), LAMBDA s1 :
             IF fault.kind = "crop_save" THEN save_failed(s1)
             ELSE Returned(
                    [s1 EXCEPT !.disk = write_file(s1.disk, crop_path, size,
                                                      origin_of(s.disk, png_path)),
                               !.wr = Append(s1.wr, crop_path),
                               !.cc = set_item(s1.cc, crop_name,
                                         CacheEntry(crop_name, crop_path, size, now(s1))),
                               !.total = s1.total + size],
                    crop_path, "crop"))

----------------------------------------------------------------------------
\* render_and_crop_roi.  A roi is [block_id, page (1-indexed), bbox_norm, dpi].
\* Returns [s, ok, evidence, render, crop, raised]: evidence is the
\* RenderedEvidence (meaningful when ok), render and crop say how the two steps
\* ended (crop = "skipped" when the render raised), raised is the exception
\* that leaves the call ("" when it returns).

\* variant: the ROI's page handed on as it is
page_index_unconverted(roi) == roi.page

\* "page=roi.page - 1": the ROI's page is 1-indexed, the renderer's 0-indexed
page_index(roi) == roi.page - 1

NoEvidence ==
    [block_id |-> "", page |-> 0, dpi |-> 0, png_path |-> NoPath,
     crop_path |-> NoPath, is_fallback |-> FALSE]

\* variant: the fallback evidence built without is_fallback=True
rendered_evidence_unflagged(roi, r, c) ==
    [block_id |-> roi.block_id,
     page |-> page_index(roi),
     dpi |-> roi.dpi,
     png_path |-> r.path,
     crop_path |-> IF c.ok THEN c.path ELSE r.path,
     is_fallback |-> FALSE]

\* the RenderedEvidence built after the crop step ended as c
rendered_evidence(roi, r, c) ==
    [block_id |-> roi.block_id,
     page |-> page_index(roi),
     dpi |-> roi.dpi,
     png_path |-> r.path,
     crop_path |-> IF c.ok THEN c.path ELSE r.path,
     is_fallback |-> ~c.ok]

\* "except Exception: if fallback_to_full_page: ... else: raise"
crop_step_result(roi, r, c, fallback_to_full_page) ==
    IF ~c.ok /\ ~fallback_to_full_page
    THEN [s |-> c.s, ok |-> FALSE, evidence |-> NoEvidence,
          render |-> r.how, crop |-> c.how, raised |-> c.how]
    ELSE [s |-> c.s, ok |-> TRUE, evidence |-> rendered_evidence(roi, r, c),
          render |-> r.how, crop |-> c.how, raised |-> ""]

\* variant: the render step's exception leaves the call as it is, not wrapped
render_step_failed_unwrapped(r) ==
    [s |-> r.s, ok |-> FALSE, evidence |-> NoEvidence,
     render |-> r.how, crop |-> "skipped", raised |-> r.how]

\* "except Exception as e: raise RuntimeError(...)" around the render step:
\* the crop step is skipped
render_step_failed(r) ==
    [s |-> r.s, ok |-> FALSE, evidence |-> NoEvidence,
     render |-> r.how, crop |-> "skipped", raised |-> "RuntimeError"]

render_and_crop_roi(s, roi, pdf_exists, fallback_to_full_page, fault, rsize, csize) ==
    Let1(render_pdf_page_to_png(s, pdf_exists, roi.block_id, page_index(roi),
                                roi.dpi, fault, rsize),
         LAMBDA r :
            IF ~r.ok
            THEN render_step_failed(r)
            ELSE Let1(crop_png(r.s, r.path, roi.bbox_norm, roi.block_id,
                               page_index(roi), roi.dpi, fault, csize),
                      LAMBDA c : crop_step_result(roi, r, c, fallback_to_full_page)))

----------------------------------------------------------------------------
\* gather_evidence_for_rois, one iteration of "for roi in rois".  gg holds the
\* locals: evidence_paths, warnings, seen_crops, and, for the record, the ROIs
\* processed so far with what each one did (outcomes).  Returns [s, g, raised]:
\* raised says that an exception left the loop body.

Outcome(roi, kind, evidence, gg) ==
    [roi |-> roi, kind |-> kind, png_path |-> evidence.png_path,
     crop_path |-> evidence.crop_path, paths_before |-> Len(gg.evidence_paths),
     warnings_before |-> Len(gg.warnings)]

\* variant: the body of "try:" without "if crop_key not in seen_crops"
add_evidence_no_dedupe(gg, roi, evidence) ==
    LET paths1 == IF gg.include_full_page
                     /\ evidence.png_path \notin Range(gg.evidence_paths)
                  THEN Append(gg.evidence_paths, evidence.png_path)
                  ELSE gg.evidence_paths
    IN  [gg EXCEPT
            !.evidence_paths = Append(paths1, evidence.crop_path),
            !.seen_crops = @ \cup {evidence.crop_path},
            !.warnings = IF evidence.is_fallback THEN Append(@, "fallback") ELSE @,
            !.rois = Append(@, roi),
            !.outcomes = Append(@, Outcome(roi,
                            IF evidence.is_fallback THEN "fallback" ELSE "ok",
                            evidence, gg))]

\* variant: the body of "try:" with the crop appended before the full page
add_evidence_crop_first(gg, roi, evidence) ==
    LET paths1 == IF evidence.crop_path \notin gg.seen_crops
                  THEN Append(gg.evidence_paths, evidence.crop_path)
                  ELSE gg.evidence_paths
        paths2 == IF gg.include_full_page
                     /\ evidence.png_path \notin Range(paths1)
                  THEN Append(paths1, evidence.png_path)
                  ELSE paths1
    IN  [gg EXCEPT
            !.evidence_paths = paths2,
            !.seen_crops = @ \cup {evidence.crop_path},
            !.warnings = IF evidence.is_fallback THEN Append(@, "fallback") ELSE @,
            !.rois = Append(@, roi),
            !.outcomes = Append(@, Outcome(roi,
                            IF evidence.is_fallback THEN "fallback" ELSE "ok",
                            evidence, gg))]

\* variant: the body of "try:" without the test of include_full_page
add_evidence_always_full_page(gg, roi, evidence) ==
    LET paths1 == IF evidence.png_path \notin Range(gg.evidence_paths)
                  THEN Append(gg.evidence_paths, evidence.png_path)
                  ELSE gg.evidence_paths
        paths2 == IF evidence.crop_path \notin gg.seen_crops
                  THEN Append(paths1, evidence.crop_path)
                  ELSE paths1
    IN  [gg EXCEPT
            !.evidence_paths = paths2,
            !.seen_crops = @ \cup {evidence.crop_path},
            !.warnings = IF evidence.is_fallback THEN Append(@, "fallback") ELSE @,
            !.rois = Append(@, roi),
            !.outcomes = Append(@, Outcome(roi,
                            IF evidence.is_fallback THEN "fallback" ELSE "ok",
                            evidence, gg))]

\* variant: the body of "try:" with "seen_crops.add(crop_key)" before the test
\* "if crop_key not in seen_crops", so that no crop is ever appended
add_evidence_seen_first(gg, roi, evidence) ==
    LET paths1 == IF gg.include_full_page
                     /\ evidence.png_path \notin Range(gg.evidence_paths)
                  THEN Append(gg.evidence_paths, evidence.png_path)
                  ELSE gg.evidence_paths
    IN  [gg EXCEPT
            !.evidence_paths = paths1,
            !.seen_crops = @ \cup {evidence.crop_path},
            !.warnings = IF evidence.is_fallback THEN Append(@, "fallback") ELSE @,
            !.rois = Append(@, roi),
            !.outcomes = Append(@, Outcome(roi,
                            IF evidence.is_fallback THEN "fallback" ELSE "ok",
                            evidence, gg))]

\* variant: the body of "try:" without "if evidence.is_fallback: warnings.append"
add_evidence_silent(gg, roi, evidence) ==
    LET paths1 == IF gg.include_full_page
                     /\ evidence.png_path \notin Range(gg.evidence_paths)
                  THEN Append(gg.evidence_paths, evidence.png_path)
                  ELSE gg.evidence_paths
        paths2 == IF evidence.crop_path \notin gg.seen_crops
                  THEN Append(paths1, evidence.crop_path)
                  ELSE paths1
    IN  [gg EXCEPT
            !.evidence_paths = paths2,
            !.seen_crops = @ \cup {evidence.crop_path},
            !.rois = Append(@, roi),
            !.outcomes = Append(@, Outcome(roi,
                            IF evidence.is_fallback THEN "fallback" ELSE "ok",
                            evidence, gg))]

\* the body of "try:" after render_and_crop_roi returned `evidence`
add_evidence(gg, roi, evidence) ==
    LET paths1 == IF gg.include_full_page
                     /\ evidence.png_path \notin Range(gg.evidence_paths)
                  THEN Append(gg.evidence_paths, evidence.png_path)
                  ELSE gg.evidence_paths
        paths2 == IF evidence.crop_path \notin gg.seen_crops
                  THEN Append(paths1, evidence.crop_path)
                  ELSE paths1
    IN  [gg EXCEPT
            !.evidence_paths = paths2,
            !.seen_crops = @ \cup {evidence.crop_path},
            !.warnings = IF evidence.is_fallback THEN Append(@, "fallback") ELSE @,
            !.rois = Append(@, roi),
            !.outcomes = Append(@, Outcome(roi,
                            IF evidence.is_fallback THEN "fallback" ELSE "ok",
                            evidence, gg))]

\* a warning and nothing else: the block id is not in block_paths ("not_found"),
\* or "except Exception as e" caught what render_and_crop_roi raised ("failed")
add_warning(gg, roi, kind) ==
    [gg EXCEPT !.warnings = Append(@, kind),
               !.rois = Append(@, roi),
               !.outcomes = Append(@, Outcome(roi, kind, NoEvidence, gg))]

\* variant: "except Exception" that swallows the error without a warning
after_render_and_crop_swallowed(gg, roi, r) ==
    IF r.ok
    THEN [s |-> r.s, raised |-> FALSE, g |-> add_evidence(gg, roi, r.evidence)]
    ELSE [s |-> r.s, raised |-> FALSE,
          g |-> [gg EXCEPT !.rois = Append(@, roi),
                           !.outcomes = Append(@, Outcome(roi, "failed", NoEvidence, gg))]]

\* variant: the loop body without "except Exception as e"
after_render_and_crop_uncaught(gg, roi, r) ==
    IF r.ok
    THEN [s |-> r.s, raised |-> FALSE, g |-> add_evidence(gg, roi, r.evidence)]
    ELSE [s |-> r.s, raised |-> TRUE, g |-> gg]

\* what the loop body does when render_and_crop_roi ended as r
after_render_and_crop(gg, roi, r) ==
    IF r.ok
    THEN [s |-> r.s, raised |-> FALSE, g |-> add_evidence(gg, roi, r.evidence)]
    ELSE [s |-> r.s, raised |-> FALSE, g |-> add_warning(gg, roi, "failed")]

gather_roi(s, gg, roi, pdf_exists, fault, rsize, csize) ==
    IF roi.block_id \notin gg.block_paths
    THEN [s |-> s, raised |-> FALSE, g |-> add_warning(gg, roi, "not_found")]
    ELSE Let1(render_and_crop_roi(s, roi, pdf_exists, TRUE, fault, rsize, csize),
              LAMBDA r : after_render_and_crop(gg, roi, r))

----------------------------------------------------------------------------
\* clear_cache and cleanup_old_versions.  Both return [s, deleted].

\* variant: "deleted += 1" before "file.unlink()", counting the failed attempts
clear_cache_counting_attempts(s, fault) ==
    LET left == {f \in s.disk : UnlinkFails(fault, f.path)}
    IN  [s |-> [s EXCEPT !.disk = left, !.rc = <<>>, !.cc = <<>>, !.total = 0,
                         !.fl = left # {}],
         deleted |-> Cardinality(s.disk)]

clear_cache(s, fault) ==
    LET left == {f \in s.disk : UnlinkFails(fault, f.path)}
    IN  [s |-> [s EXCEPT !.disk = left, !.rc = <<>>, !.cc = <<>>, !.total = 0,
                         !.fl = left # {}],
         deleted |-> Cardinality(s.disk) - Cardinality(left)]

\* variant: files.sort without reverse=True, so that files[1:] spares the oldest
IsOldVersion_ascending(d, f) ==
    \E h \in d : SameGroup(h.path, f.path) /\ h.mtime < f.mtime

\* a render file that is not the newest (by st_mtime) of its base key:
\* files[1:] after files.sort(key=st_mtime, reverse=True)
IsOldVersion(d, f) ==
    \E h \in d : SameGroup(h.path, f.path) /\ h.mtime > f.mtime

RECURSIVE SumFileSizes(_)
SumFileSizes(S) ==
    IF S = {} THEN 0
    ELSE LET f == CHOOSE x \in S : TRUE IN f.size + SumFileSizes(S \ {f})

cleanup_old_versions(s, fault) ==
    LET gone == {f \in s.disk : IsOldVersion(s.disk, f) /\ ~UnlinkFails(fault, f.path)}
    IN  [s |-> [s EXCEPT !.disk = s.disk \ gone,
                         !.total = s.total - SumFileSizes(gone),
                         !.fl = \E f \in s.disk : IsOldVersion(s.disk, f)
                                                  /\ UnlinkFails(fault, f.path)],
         deleted |-> Cardinality(gone)]

----------------------------------------------------------------------------
\* _load_existing_cache, run by __init__ over the files found in cache_dir.
\* glob_order is the order in which crops_dir.glob yields the crop files,
\* atime_order the order of their st_atime.

Perms(S) ==
    {f \in [1..Cardinality(S) -> S] : \A i, j \in 1..Cardinality(S) : f[i] = f[j] => i = j}

PositionIn(seq, x) == CHOOSE i \in 1..Len(seq) : seq[i] = x

\* "self._crop_cache[crop_key] = CacheEntry(path=png_file, size_bytes=
\* stat.st_size, ..., last_accessed=stat.st_atime)"
loaded_crop_entry(f, atime_order) ==
    CacheEntry(f.path, f.path, f.size, PositionIn(atime_order, f))

\* the render loop builds a CacheEntry that it never stores and adds the
\* file's size to the running total; the crop loop stores its entries
load_existing_cache(d, glob_order, atime_order) ==
    [disk |-> d,
     rc |-> <<>>,
     cc |-> [i \in 1..Len(glob_order) |-> loaded_crop_entry(glob_order[i], atime_order)],
     total |-> SumFileSizes({f \in d : f.path.dir = "renders"})
               + SumFileSizes({f \in d : f.path.dir = "crops"}),
     ev |-> <<>>, wr |-> <<>>, fl |-> FALSE, box |-> <<>>, rect |-> <<>>,
     reserved |-> NoReservation]

----------------------------------------------------------------------------
\* The state machine.  An environment E says which inputs the calls may meet:
\* E.faults (I/O failures happen), E.oversize (a written file may be larger
\* than its estimate), E.boxes (the bounding boxes handed to crop_png) and
\* E.dpis (the dpi values handed to render_pdf_page_to_png).

NoFault == [kind |-> "none", path |-> NoPath]

FaultsOf(E, kinds) ==
    IF E.faults /\ faults < MaxFaults
    THEN {[kind |-> k, path |-> NoPath] : k \in kinds \cup {"none"}}
         \cup {[kind |-> "unlink", path |-> f.path] : f \in disk}
    ELSE {NoFault}

SizesOf(E, dir, block) ==
    IF E.oversize THEN FileSizes(dir, block)
    ELSE {Min(z, EstimatedSize(dir)) : z \in FileSizes(dir, block)}

Rois == [block_id : Blocks, page : 1..(NumPages + 1), bbox_norm : BBoxes, dpi : RoiDpis]

\* block_paths of a gather call: the block ids that have a source path
BlockPathChoices == {Blocks, {"b1"}}

Cur == [disk |-> disk, rc |-> render_cache, cc |-> crop_cache,
        total |-> current_cache_size, ev |-> <<>>, wr |-> <<>>, fl |-> FALSE,
        box |-> <<>>, rect |-> <<>>, reserved |-> NoReservation]

\* the call ends in state s; a failure that the call never met is no failure
Commit(s, fault) ==
    /\ fault = NoFault \/ s.fl
    /\ faults' = IF s.fl THEN faults + 1 ELSE faults
    /\ s.total <= MaxTotal
    /\ \E c \in {Compact(s)} :
          /\ disk' = c.disk
          /\ render_cache' = c.rc
          /\ crop_cache' = c.cc
          /\ current_cache_size' = c.total

\* the arguments of a call, with the source's st_mtime at the call
NoCall == [block |-> "", page |-> 0, dpi |-> 0, mtime |-> 0, box |-> <<>>,
           exists |-> FALSE]

NoLast ==
    [op |-> "init", ok |-> TRUE, how |-> "", path |-> NoPath, call |-> NoCall,
     evidence |-> NoEvidence, render |-> "", crop |-> "", fallback |-> FALSE,
     ev |-> <<>>, wr |-> <<>>, deleted |-> 0, repeat |-> FALSE,
     box |-> <<>>, rect |-> <<>>, img |-> <<>>, reserved |-> NoReservation]

G0 == [n |-> 0, include_full_page |-> FALSE, block_paths |-> {},
       rois |-> <<>>, evidence_paths |-> <<>>, warnings |-> <<>>,
       seen_crops |-> {}, outcomes |-> <<>>]

\* get_cache_stats is not running
NoStats == [pc |-> "idle", todo |-> {}, cur |-> NoPath, listed |-> 0,
            size |-> 0, gone |-> 0]

Init ==
    /\ disk = {}
    /\ render_cache = <<>>
    /\ crop_cache = <<>>
    /\ current_cache_size = 0
    /\ max_cache_size_bytes \in Budgets
    /\ src = [b \in Blocks |-> 1700000000]
    /\ faults = 0
    /\ pc = "idle"
    /\ g = G0
    /\ last = NoLast
    /\ stats = NoStats

RenderCall(b, p, d, x) ==
    [NoCall EXCEPT !.block = b, !.page = p, !.dpi = d, !.mtime = src[b], !.exists = x]

\* last.repeat: the call before this one was the same call, it returned, and
\* the source was not touched in between
RenderPage(E) ==
    /\ pc = "idle"
    /\ \E b \in Blocks, p \in 0..NumPages, d \in E.dpis, x \in BOOLEAN,
          f \in FaultsOf(E, {"render_save"}) :
       \E z \in SizesOf(E, "renders", b) :
       \E r \in {render_pdf_page_to_png(Cur, x, b, p, d, f, z)} :
              /\ Commit(r.s, f)
              /\ last' = [NoLast EXCEPT
                            !.op = "render_pdf_page_to_png", !.ok = r.ok,
                            !.how = r.how, !.path = r.path,
                            !.call = RenderCall(b, p, d, x),
                            !.ev = r.s.ev, !.wr = r.s.wr,
                            !.reserved = r.s.reserved,
                            !.repeat = /\ last.op = "render_pdf_page_to_png"
                                       /\ last.ok
                                       /\ last.call = RenderCall(b, p, d, x)]
    /\ g' = G0
    /\ UNCHANGED <<stats, max_cache_size_bytes, src, pc>>

\* crop_png is handed the path of some version of the page's full render
CropPng(E) ==
    /\ pc = "idle"
    /\ \E b \in Blocks, p \in 0..(NumPages - 1), d \in RoiDpis,
          bbox \in E.boxes, f \in FaultsOf(E, {"crop_open", "crop_save"}) :
       \E png \in {get_versioned_cache_key(b, p, d, m) : m \in Mtimes},
          z \in SizesOf(E, "crops", b) :
       \E r \in {crop_png(Cur, png, bbox, b, p, d, f, z)} :
              /\ Commit(r.s, f)
              /\ last' = [NoLast EXCEPT
                            !.op = "crop_png", !.ok = r.ok,
                            !.how = r.how, !.path = r.path,
                            !.call = [NoCall EXCEPT !.block = b, !.page = p,
                                         !.dpi = d, !.box = bbox],
                            !.ev = r.s.ev, !.wr = r.s.wr,
                            !.box = r.s.box, !.rect = r.s.rect,
                            !.img = image_size(png),
                            !.reserved = r.s.reserved]
    /\ g' = G0
    /\ UNCHANGED <<stats, max_cache_size_bytes, src, pc>>

RenderAndCropRoi(E) ==
    /\ pc = "idle"
    /\ \E roi \in Rois, fb \in BOOLEAN, x \in BOOLEAN,
          f \in FaultsOf(E, {"render_save", "crop_open", "crop_save"}) :
       \E rz \in SizesOf(E, "renders", roi.block_id),
          cz \in SizesOf(E, "crops", roi.block_id) :
       \E r \in {render_and_crop_roi(Cur, roi, x, fb, f, rz, cz)} :
              /\ Commit(r.s, f)
              /\ last' = [NoLast EXCEPT
                            !.op = "render_and_crop_roi", !.ok = r.ok,
                            !.how = r.raised,
                            !.evidence = r.evidence, !.render = r.render,
                            !.crop = r.crop, !.fallback = fb,
                            !.call = [NoCall EXCEPT !.block = roi.block_id,
                                         !.page = roi.page, !.dpi = roi.dpi,
                                         !.mtime = src[roi.block_id],
                                         !.box = roi.bbox_norm,
                                         !.exists = x],
                            !.ev = r.s.ev, !.wr = r.s.wr]
    /\ g' = G0
    /\ UNCHANGED <<stats, max_cache_size_bytes, src, pc>>

\* gather_evidence_for_rois(rois, block_paths, include_full_page) is entered;
\* the list has n ROIs, each drawn when the loop reaches it
GatherBegin ==
    /\ pc = "idle"
    /\ \E n \in 0..MaxRois, bp \in BlockPathChoices, ifp \in BOOLEAN :
          g' = [G0 EXCEPT !.n = n, !.block_paths = bp, !.include_full_page = ifp]
    /\ pc' = "gather"
    /\ last' = [NoLast EXCEPT !.op = "gather_begin"]
    /\ UNCHANGED <<stats, disk, render_cache, crop_cache, current_cache_size,
                   max_cache_size_bytes, src, faults>>

GatherRoi(E) ==
    /\ pc = "gather"
    /\ Len(g.rois) < g.n
    /\ \E roi \in Rois,
          f \in FaultsOf(E, {"render_save", "crop_open", "crop_save"}) :
       \E rz \in SizesOf(E, "renders", roi.block_id),
          cz \in SizesOf(E, "crops", roi.block_id) :
       \E r \in {gather_roi(Cur, g, roi, TRUE, f, rz, cz)} :
              /\ Commit(r.s, f)
              /\ g' = r.g
              /\ pc' = IF r.raised THEN "idle" ELSE "gather"
              /\ last' = [NoLast EXCEPT
                            !.op = IF r.raised THEN "gather_evidence_for_rois"
                                   ELSE "gather_roi",
                            !.ok = ~r.raised,
                            !.ev = r.s.ev, !.wr = r.s.wr]
    /\ UNCHANGED <<stats, max_cache_size_bytes, src>>

\* "return evidence_paths, warnings"
GatherReturn ==
    /\ pc = "gather"
    /\ Len(g.rois) = g.n
    /\ pc' = "idle"
    /\ last' = [NoLast EXCEPT !.op = "gather_evidence_for_rois"]
    /\ UNCHANGED <<stats, disk, render_cache, crop_cache, current_cache_size,
                   max_cache_size_bytes, src, faults, g>>

ClearCache(E) ==
    /\ pc = "idle"
    /\ \E f \in FaultsOf(E, {}) :
       \E r \in {clear_cache(Cur, f)} :
              /\ Commit(r.s, f)
              /\ last' = [NoLast EXCEPT !.op = "clear_cache", !.deleted = r.deleted]
    /\ g' = G0
    /\ UNCHANGED <<stats, max_cache_size_bytes, src, pc>>

CleanupOldVersions(E) ==
    /\ pc = "idle"
    /\ \E f \in FaultsOf(E, {}) :
       \E r \in {cleanup_old_versions(Cur, f)} :
              /\ Commit(r.s, f)
              /\ last' = [NoLast EXCEPT !.op = "cleanup_old_versions",
                                        !.deleted = r.deleted]
    /\ g' = G0
    /\ UNCHANGED <<stats, max_cache_size_bytes, src, pc>>

\* the pixel rectangle of crop_png alone (lines 324-381), on an image of any
\* size up to MaxSide x MaxSide: the box is corrected, converted to pixels and
\* adjusted to the minimum size; nothing else of the manager is touched.
\* The result depends on the arguments only, so it is computed once, from
\* the initial state.
PixelRect ==
    /\ last = NoLast
    /\ \E width \in 1..MaxSide, height \in 1..MaxSide, bbox \in BoxInputs :
          last' = [NoLast EXCEPT
                      !.op = "pixel_rect",
                      !.call = [NoCall EXCEPT !.box = bbox],
                      !.box = corrected_bbox(bbox),
                      !.rect = pixel_rect(corrected_bbox(bbox), width, height),
                      !.img = <<width, height>>]
    /\ UNCHANGED <<stats, disk, render_cache, crop_cache, current_cache_size,
                   max_cache_size_bytes, src, faults, pc, g>>

\* get_cache_stats, called in a thread of its own while the calls above run:
\* EvidenceManager takes no lock.  Its steps are the directory listings, and
\* then for each listed file "f.exists()" and "f.stat().st_size", which are two
\* system calls.  stats.todo are the listed files not yet summed (the render
\* files are summed first), stats.cur the file that passed "if f.exists()".

\* "render_files = list(...glob("*.png")); crop_files = list(...glob("*.png"))"
StatsList ==
    /\ stats.pc = "idle"
    /\ stats' = [NoStats EXCEPT !.pc = "sum", !.todo = PathsOn(disk),
                                !.listed = Cardinality(disk)]
    /\ UNCHANGED <<disk, render_cache, crop_cache, current_cache_size,
                   max_cache_size_bytes, src, faults, pc, g, last>>

\* "if f.exists()" of the next file: a file that is gone adds nothing
StatsExists ==
    /\ stats.pc = "sum"
    /\ stats.cur = NoPath
    /\ \E p \in stats.todo :
          /\ p.dir = "renders" \/ \A q \in stats.todo : q.dir # "renders"
          /\ stats' = IF path_exists(disk, p)
                      THEN [stats EXCEPT !.cur = p]
                      ELSE [stats EXCEPT !.todo = @ \ {p}, !.gone = @ + 1]
    /\ UNCHANGED <<disk, render_cache, crop_cache, current_cache_size,
                   max_cache_size_bytes, src, faults, pc, g, last>>

\* "f.stat().st_size" of the file that passed the test: stat of a file that
\* is gone raises FileNotFoundError, which nothing catches
StatsStat ==
    /\ stats.pc = "sum"
    /\ stats.cur # NoPath
    /\ stats' = IF path_exists(disk, stats.cur)
                THEN [stats EXCEPT !.size = @ + st_size(disk, stats.cur),
                                   !.todo = @ \ {stats.cur}, !.cur = NoPath]
                ELSE [stats EXCEPT !.pc = "raised"]
    /\ UNCHANGED <<disk, render_cache, crop_cache, current_cache_size,
                   max_cache_size_bytes, src, faults, pc, g, last>>

\* "return {...}"
StatsReturn ==
    /\ stats.pc = "sum"
    /\ stats.cur = NoPath
    /\ stats.todo = {}
    /\ stats' = [stats EXCEPT !.pc = "returned"]
    /\ UNCHANGED <<disk, render_cache, crop_cache, current_cache_size,
                   max_cache_size_bytes, src, faults, pc, g, last>>

\* the process ends and a new EvidenceManager is constructed over the same
\* cache_dir with the same budget
Restart ==
    /\ pc = "idle"
    /\ \E glob_order \in Perms({f \in disk : f.path.dir = "crops"}),
          atime_order \in Perms({f \in disk : f.path.dir = "crops"}) :
       \E r \in {load_existing_cache(disk, glob_order, atime_order)} :
              /\ Commit(r, NoFault)
              /\ last' = [NoLast EXCEPT !.op = "__init__"]
    /\ g' = G0
    /\ UNCHANGED <<stats, max_cache_size_bytes, src, pc>>

\* the source PDF of a block is rewritten: its st_mtime changes
TouchSource ==
    /\ pc = "idle"
    /\ \E b \in Blocks :
       \E m \in SourceMtimes(b) :
          /\ m # src[b]
          /\ src' = [src EXCEPT ![b] = m]
    /\ UNCHANGED <<stats, disk, render_cache, crop_cache, current_cache_size,
                   max_cache_size_bytes, faults, pc, g, last>>

----------------------------------------------------------------------------
\* Specifications.

WithFaults == [faults |-> TRUE, oversize |-> TRUE, boxes |-> BBoxes, dpis |-> Dpis]
NoFaults == [faults |-> FALSE, oversize |-> TRUE, boxes |-> BBoxes, dpis |-> Dpis]
WithinEstimate == [faults |-> FALSE, oversize |-> FALSE, boxes |-> BBoxes, dpis |-> Dpis]

\* crop_png called with any bounding box: out of range, inverted, empty
AnyBox == [faults |-> FALSE, oversize |-> TRUE, boxes |-> BoxInputs, dpis |-> Dpis]

\* render_pdf_page_to_png called with any dpi, also below 72 and above 600
AnyDpi == [faults |-> FALSE, oversize |-> TRUE, boxes |-> BBoxes, dpis |-> DpiInputs]

\* the calls the orchestration layer makes
Calls(E) ==
    \/ RenderPage(E)
    \/ CropPng(E)
    \/ RenderAndCropRoi(E)
    \/ GatherBegin
    \/ GatherRoi(E)
    \/ GatherReturn
    \/ ClearCache(E)

\* Spec: every call, with I/O failures (at most MaxFaults in a behaviour).
Next == Calls(WithFaults)
Spec == Init /\ [][Next]_vars

\* SpecClean: every call, no I/O failure, nothing changes the files from outside.
NextClean == Calls(NoFaults)
SpecClean == Init /\ [][NextClean]_vars

\* SpecWithinEstimate: as SpecClean, and no written file exceeds its estimate.
NextWithinEstimate == Calls(WithinEstimate)
SpecWithinEstimate == Init /\ [][NextWithinEstimate]_vars

\* SpecVersions: the cache calls while the source PDFs change and
\* cleanup_old_versions runs; no I/O failure.
NextVersions ==
    \/ RenderPage(NoFaults)
    \/ CropPng(NoFaults)
    \/ ClearCache(NoFaults)
    \/ CleanupOldVersions(NoFaults)
    \/ TouchSource
SpecVersions == Init /\ [][NextVersions]_vars

\* renders and crops over process restarts
NextRestart ==
    \/ RenderPage(NoFaults)
    \/ CropPng(NoFaults)
    \/ Restart
SpecRestart == Init /\ [][NextRestart]_vars

\* crop_png on every bounding box, under the smallest budget
NextBBox ==
    \/ RenderPage(NoFaults)
    \/ CropPng(AnyBox)
InitBBox == Init /\ max_cache_size_bytes = 1
SpecBBox == InitBBox /\ [][NextBBox]_vars

\* the pixel rectangle as a function of the image size and the bounding box
NextRect == PixelRect
SpecRect == Init /\ [][NextRect]_vars

\* render_pdf_page_to_png on every dpi
NextDpi ==
    \/ RenderPage(AnyDpi)
    \/ ClearCache(NoFaults)
SpecDpi == Init /\ [][NextDpi]_vars

\* get_cache_stats in one thread, renders, crops and clear_cache in another
NextStats ==
    \/ RenderPage(NoFaults)
    \/ CropPng(NoFaults)
    \/ ClearCache(NoFaults)
    \/ StatsList
    \/ StatsExists
    \/ StatsStat
    \/ StatsReturn
SpecStats == Init /\ [][NextStats]_vars

\* render_and_crop_roi calls while the sources are rewritten
NextRefresh ==
    \/ RenderAndCropRoi(NoFaults)
    \/ CleanupOldVersions(NoFaults)
    \/ TouchSource
SpecRefresh == Init /\ [][NextRefresh]_vars

----------------------------------------------------------------------------
\* Properties of gather_evidence_for_rois and render_and_crop_roi.

GatherReturned == last.op = "gather_evidence_for_rois"

\* evidence_paths and warnings as they were when outcome i was complete
PathsAfter(i) ==
    IF i < Len(g.outcomes) THEN g.outcomes[i + 1].paths_before
    ELSE Len(g.evidence_paths)

WarningsAfter(i) ==
    IF i < Len(g.outcomes) THEN g.outcomes[i + 1].warnings_before
    ELSE Len(g.warnings)

\* C1: gather_evidence_for_rois returns for every input: a ROI whose block has
\* no source path, or whose render_and_crop_roi raised, adds exactly one
\* warning and no path, and every ROI, also one after such a ROI, is processed:
\* a later ROI that produced a crop has its crop path in evidence_paths.
C1_GatherNeverRaises ==
    GatherReturned =>
        /\ last.ok
        /\ Len(g.outcomes) = g.n
        /\ \A i \in 1..Len(g.outcomes) :
              LET o == g.outcomes[i] IN
              /\ o.kind \in {"not_found", "failed"} =>
                    /\ PathsAfter(i) = o.paths_before
                    /\ WarningsAfter(i) = o.warnings_before + 1
              /\ o.kind = "ok" =>
                    /\ o.crop_path.dir = "crops"
                    /\ o.crop_path \in Range(g.evidence_paths)

\* a gather call of two ROIs returned: the first ROI's render_and_crop_roi
\* raised, the second one produced a crop
C1_Witness ==
    /\ GatherReturned
    /\ last.ok
    /\ g.n = 2
    /\ Len(g.outcomes) = 2
    /\ g.outcomes[1].kind = "failed"
    /\ g.outcomes[2].kind = "ok"
    /\ g.warnings = <<"failed">>
    /\ g.outcomes[2].crop_path \in Range(g.evidence_paths)

RenderReturned(how) == how \in {"hit", "adopt", "render"}
CropReturned(how) == how \in {"hit", "adopt", "crop"}
CropRaised(how) == how \in {"FileNotFoundError", "open", "save"}

\* C2: in render_and_crop_roi, when the render returned and the crop step
\* raised: with fallback_to_full_page the call returns evidence with
\* is_fallback set and crop_path equal to png_path, without it the call
\* raises.  When the crop step returned, is_fallback is not set and crop_path
\* is the path crop_png returned, a file of the crops directory.
C2_FallbackOnCropFailure ==
    (last.op = "render_and_crop_roi" /\ RenderReturned(last.render)) =>
        /\ (CropRaised(last.crop) /\ last.fallback) =>
              /\ last.ok
              /\ last.evidence.is_fallback
              /\ last.evidence.crop_path = last.evidence.png_path
              /\ last.evidence.png_path.dir = "renders"
        /\ (CropRaised(last.crop) /\ ~last.fallback) => ~last.ok
        /\ CropReturned(last.crop) =>
              /\ last.ok
              /\ ~last.evidence.is_fallback
              /\ last.evidence.crop_path.dir = "crops"
              /\ last.evidence.crop_path =
                    get_crop_key(last.call.block, last.call.page - 1,
                                 corrected_bbox(last.call.box), last.call.dpi)

\* render_and_crop_roi fell back to the full page after a failed crop
C2_Witness ==
    /\ last.op = "render_and_crop_roi"
    /\ RenderReturned(last.render)
    /\ CropRaised(last.crop)
    /\ last.fallback
    /\ last.ok
    /\ last.evidence.is_fallback
    /\ last.evidence.crop_path = last.evidence.png_path

----------------------------------------------------------------------------
\* Properties of the page cache: hits and source versions.

RenderPageReturned == last.op = "render_pdf_page_to_png" /\ last.ok

\* C3: a render_pdf_page_to_png call that repeats the call before it (same
\* source with the same mtime, block, page and dpi; nothing in between, so the
\* cached file is still there) returns the same path as that call, is served
\* from the in-memory entry, writes no file and evicts none, and leaves the
\* files, the number of tracked entries and the running total as they were.
C3_RepeatedRenderIsHit ==
    [][(last'.op = "render_pdf_page_to_png" /\ last'.repeat /\ src' = src) =>
          /\ last'.ok
          /\ last'.how = "hit"
          /\ last'.path = last.path
          /\ last'.wr = <<>>
          /\ last'.ev = <<>>
          /\ disk' = disk
          /\ Len(render_cache') = Len(render_cache)
          /\ Len(crop_cache') = Len(crop_cache)
          /\ current_cache_size' = current_cache_size]_vars

\* a render_pdf_page_to_png call repeated the call before it and was a hit
C3_Witness ==
    /\ RenderPageReturned
    /\ last.repeat
    /\ last.how = "hit"
    /\ path_exists(disk, last.path)
    /\ has_key(render_cache, <<last.call.block, last.call.page,
                               clamp_dpi(last.call.dpi), last.call.mtime>>)

SameBlockPageDpi(c1, c2) ==
    c1.block = c2.block /\ c1.page = c2.page /\ c1.dpi = c2.dpi

RenderKey(c) == <<c.block, c.page, clamp_dpi(c.dpi), c.mtime>>

\* C4: after render_pdf_page_to_png returned for a source with mtime m1, the
\* next call for the same block, page and dpi, made after the mtime changed to
\* m2 # m1 (a version not rendered before), is a miss that creates a separate
\* cache entry and returns a different path; the m1 file is not deleted by
\* the key change (only an eviction may remove it).
C4_NewMtimeNewVersion ==
    [][(/\ RenderPageReturned
        /\ last'.op = "render_pdf_page_to_png"
        /\ last'.ok
        /\ SameBlockPageDpi(last.call, last'.call)
        /\ last'.call.mtime # last.call.mtime
        /\ ~has_key(render_cache, RenderKey(last'.call))) =>
          /\ last'.how \in {"adopt", "render"}
          /\ has_key(render_cache', RenderKey(last'.call))
          /\ last'.path # last.path
          /\ \/ path_exists(disk', last.path)
             \/ \E i \in 1..Len(last'.ev) : last'.ev[i].path = last.path
             \/ ~path_exists(disk, last.path)]_vars

----------------------------------------------------------------------------
\* Properties of the byte budget and of eviction.

TrackedEntries == Len(render_cache) + Len(crop_cache)

\* C5: starting from an empty cache directory, with no I/O failure and no file
\* changed from outside, in every state reached by render_pdf_page_to_png,
\* crop_png, render_and_crop_roi, gather_evidence_for_rois and clear_cache
\* calls (between the ROIs of a gather call too, and after every eviction) the
\* running total equals the sum of size_bytes over the entries of both mappings.
C5_ByteAccounting ==
    current_cache_size = SumSizes(render_cache) + SumSizes(crop_cache)

\* a call evicted entries and left at least two entries tracked
C5_Witness ==
    /\ last.ev # <<>>
    /\ \E i \in 1..Len(last.ev) : last.ev[i].existed
    /\ TrackedEntries >= 2
    /\ current_cache_size > 0
    /\ current_cache_size = SumSizes(render_cache) + SumSizes(crop_cache)

\* C6: starting from an empty cache directory, with no I/O failure, no file
\* changed from outside, and every written file at most as large as its
\* estimate, after every render_pdf_page_to_png or crop_png call (made
\* directly or by render_and_crop_roi or a gather call) the running total is
\* at most the budget, or exactly one entry is tracked.
C6_SoftBudget ==
    \/ current_cache_size <= max_cache_size_bytes
    \/ TrackedEntries = 1

\* a call evicted an entry to make room and left the single entry it wrote,
\* which is larger than the budget
C6_Witness ==
    /\ last.op \in {"render_pdf_page_to_png", "crop_png"}
    /\ last.ok
    /\ last.ev # <<>>
    /\ last.wr # <<>>
    /\ TrackedEntries = 1
    /\ current_cache_size > max_cache_size_bytes

\* C7: within a reserve (_evict_lru_files) call a full-page entry is evicted
\* only when the crop mapping is empty, and no entry is evicted while an entry
\* of the same mapping that was used less recently is still tracked.
C7_EvictionOrder ==
    \A i \in 1..Len(last.ev) :
        /\ last.ev[i].cache = "render" => last.ev[i].crops_tracked = 0
        /\ last.ev[i].older_tracked = 0

----------------------------------------------------------------------------
\* Postconditions of gather_evidence_for_rois.

\* C8: every path in the returned evidence_paths exists on disk when
\* gather_evidence_for_rois returns, for every ROI list, every
\* include_full_page value and every budget.
C8_EvidencePathsExist ==
    GatherReturned =>
        \A i \in 1..Len(g.evidence_paths) : path_exists(disk, g.evidence_paths[i])

\* C9: the returned evidence_paths never holds the same path twice, for both
\* values of include_full_page, also when a region was served by the
\* full-page fallback.
C9_NoDuplicatePaths ==
    GatherReturned =>
        \A i, j \in 1..Len(g.evidence_paths) :
            g.evidence_paths[i] = g.evidence_paths[j] => i = j

AllRoisProcessed == GatherReturned /\ last.ok /\ Len(g.outcomes) = g.n

\* C10 as stated: the returned warnings list is empty if and only if every ROI
\* had its block id in block_paths and succeeded, a ROI served by the
\* full-page fallback counting as succeeded.
C10_WarningsIffFallbackCounts ==
    AllRoisProcessed =>
        (g.warnings = <<>> <=>
            \A i \in 1..Len(g.outcomes) : g.outcomes[i].kind \in {"ok", "fallback"})

\* C10: the returned warnings list is empty if and only if every ROI had its
\* block id in block_paths and render_and_crop_roi returned a real crop for it:
\* a ROI served by the full-page fallback adds a warning, and the list has one
\* warning for each ROI that did not get a crop.
C10_WarningsIffAllCropped ==
    AllRoisProcessed =>
        /\ g.warnings = <<>> <=>
              \A i \in 1..Len(g.outcomes) : g.outcomes[i].kind = "ok"
        /\ Len(g.warnings) =
              Cardinality({i \in 1..Len(g.outcomes) : g.outcomes[i].kind # "ok"})
        /\ \A i \in 1..Len(g.outcomes) :
              g.outcomes[i].kind = "fallback" =>
                  /\ g.outcomes[i].roi.block_id \in g.block_paths
                  /\ g.outcomes[i].crop_path = g.outcomes[i].png_path
                  /\ WarningsAfter(i) = g.outcomes[i].warnings_before + 1

\* a gather call returned whose ROIs all had a source path and none raised,
\* one of them served by the full-page fallback, and warnings is not empty
C10_Witness ==
    /\ AllRoisProcessed
    /\ g.n >= 1
    /\ \A i \in 1..Len(g.outcomes) : g.outcomes[i].kind \in {"ok", "fallback"}
    /\ \E i \in 1..Len(g.outcomes) : g.outcomes[i].kind = "fallback"
    /\ g.warnings # <<>>

----------------------------------------------------------------------------
\* Accounting, order and deduplication in gather_evidence_for_rois.

\* the positions of evidence_paths filled while outcome i was processed
AddedBy(i) == (g.outcomes[i].paths_before + 1)..PathsAfter(i)

\* C11: in gather_evidence_for_rois a ROI contributes exactly one warning if
\* its block id is absent from block_paths, or its render_and_crop_roi call
\* raised, or it was served by the fallback, and no warning otherwise; so
\* len(warnings) is the number of such ROIs.  A fallback ROI contributes a
\* warning and has its full-page path in evidence_paths once it is processed.
C11_OneWarningPerFailedRoi ==
    AllRoisProcessed =>
        /\ \A i \in 1..Len(g.outcomes) :
              LET o == g.outcomes[i] IN
              /\ o.roi.block_id \notin g.block_paths => o.kind = "not_found"
              /\ WarningsAfter(i) - o.warnings_before =
                    IF o.kind \in {"not_found", "failed", "fallback"} THEN 1 ELSE 0
              /\ o.kind = "fallback" =>
                    /\ o.png_path.dir = "renders"
                    /\ \E k \in 1..PathsAfter(i) : g.evidence_paths[k] = o.png_path
                    /\ \A k \in AddedBy(i) : g.evidence_paths[k] = o.png_path
        /\ Len(g.warnings) =
              Cardinality({i \in 1..Len(g.outcomes) :
                              g.outcomes[i].kind \in {"not_found", "failed", "fallback"}})

\* a gather call of two ROIs returned with one raised ROI and one fallback
\* ROI, in either order, and two warnings
C11_Witness ==
    /\ AllRoisProcessed
    /\ g.n = 2
    /\ {g.outcomes[1].kind, g.outcomes[2].kind} = {"failed", "fallback"}
    /\ Len(g.warnings) = 2
    /\ \E k \in 1..Len(g.evidence_paths) : g.evidence_paths[k].dir = "renders"

\* the paths ROI i hands to the output: its crop path and, when
\* include_full_page, its full-page path; none when it only added a warning
Contributed(i) ==
    IF g.outcomes[i].kind \in {"ok", "fallback"}
    THEN {g.outcomes[i].crop_path}
         \cup (IF g.include_full_page THEN {g.outcomes[i].png_path} ELSE {})
    ELSE {}

Contributors(p) == {i \in 1..Len(g.outcomes) : p \in Contributed(i)}

FirstContributor(p) == CHOOSE i \in Contributors(p) : \A j \in Contributors(p) : i <= j

FirstPos(p) ==
    CHOOSE k \in 1..Len(g.evidence_paths) :
        /\ g.evidence_paths[k] = p
        /\ \A h \in 1..(k - 1) : g.evidence_paths[h] # p

\* C12: the paths of evidence_paths are the paths the ROIs contributed, in the
\* order of the ROIs that first contributed them: for i < j every path first
\* contributed by rois[i] precedes every path first contributed by rois[j];
\* with include_full_page the full-page path a ROI contributes precedes the
\* crop path it contributes.
C12_OutputFollowsInputOrder ==
    AllRoisProcessed =>
        /\ \A p \in Range(g.evidence_paths) : Contributors(p) # {}
        /\ \A i \in 1..Len(g.outcomes) : Contributed(i) \subseteq Range(g.evidence_paths)
        /\ \A p, q \in Range(g.evidence_paths) :
              FirstContributor(p) < FirstContributor(q) => FirstPos(p) < FirstPos(q)
        /\ \A i \in 1..Len(g.outcomes) :
              LET o == g.outcomes[i] IN
              (/\ g.include_full_page
               /\ o.kind = "ok"
               /\ FirstContributor(o.png_path) = i
               /\ FirstContributor(o.crop_path) = i)
                  => FirstPos(o.png_path) < FirstPos(o.crop_path)

\* a gather call with include_full_page returned the page and the crop of two
\* ROIs of different blocks: four paths
C12_Witness ==
    /\ AllRoisProcessed
    /\ g.include_full_page
    /\ g.n = 2
    /\ g.outcomes[1].kind = "ok"
    /\ g.outcomes[2].kind = "ok"
    /\ g.outcomes[1].roi.block_id # g.outcomes[2].roi.block_id
    /\ g.evidence_paths = <<g.outcomes[1].png_path, g.outcomes[1].crop_path,
                            g.outcomes[2].png_path, g.outcomes[2].crop_path>>

\* ROIs with the same block id, page, dpi and corrected bounding box
SameRegion(r1, r2) ==
    /\ r1.block_id = r2.block_id
    /\ r1.page = r2.page
    /\ r1.dpi = r2.dpi
    /\ corrected_bbox(r1.bbox_norm) = corrected_bbox(r2.bbox_norm)

\* a ROI that can be served: its block has a source path and its page exists
Servable(roi) == roi.block_id \in g.block_paths /\ roi.page <= NumPages

Occurrences(p) == {k \in 1..Len(g.evidence_paths) : g.evidence_paths[k] = p}

----------------------------------------------------------------------------
\* render_and_crop_roi: the render step and the page index.

RenderAndCropReturned == last.op = "render_and_crop_roi"

\* C14: if the render step of render_and_crop_roi fails (missing source, page
\* out of range, or a failed write), the call raises a wrapped error
\* (RuntimeError) for both values of fallback_to_full_page, the crop step is
\* not attempted (no crop file is written), and no RenderedEvidence is returned.
C14_RenderFailureIsFatal ==
    (RenderAndCropReturned /\ ~RenderReturned(last.render)) =>
        /\ last.render \in {"FileNotFoundError", "ValueError", "save"}
        /\ ~last.ok
        /\ last.how = "RuntimeError"
        /\ last.crop = "skipped"
        /\ last.evidence = NoEvidence
        /\ \A k \in 1..Len(last.wr) : last.wr[k].dir # "crops"

\* render_and_crop_roi with fallback_to_full_page raised because the page
\* could not be written, after the eviction for it had run
C14_Witness ==
    /\ RenderAndCropReturned
    /\ last.fallback
    /\ last.render = "save"
    /\ ~last.ok
    /\ last.how = "RuntimeError"
    /\ last.crop = "skipped"

\* C15: for a ROI with 1-indexed page p, render_and_crop_roi renders the
\* zero-indexed page p-1, uses p-1 in the full-page file name and cache key and
\* in the crop key, and returns RenderedEvidence.page = p-1; a ROI with p equal
\* to the page count renders the last page, a ROI with p = page count + 1
\* fails with the range error.
C15_PageIndexConversion ==
    (RenderAndCropReturned /\ last.call.exists) =>
        LET p == last.call.page
            e == last.evidence
        IN
        /\ last.ok =>
              /\ e.page = p - 1
              /\ e.png_path = get_versioned_cache_key(last.call.block, p - 1,
                                                      last.call.dpi, last.call.mtime)
              /\ has_key(render_cache, <<last.call.block, p - 1, last.call.dpi,
                                         last.call.mtime>>)
                 \/ \E k \in 1..Len(last.ev) : last.ev[k].path = e.png_path
              /\ CropReturned(last.crop) => e.crop_path.page = p - 1
        /\ p <= NumPages => last.render # "ValueError"
        /\ (p = NumPages /\ RenderReturned(last.render)) =>
              e.png_path.page = NumPages - 1 \/ ~last.ok
        /\ p = NumPages + 1 =>
              /\ last.render = "ValueError"
              /\ ~last.ok

\* render_and_crop_roi for the document's last page returned the render and
\* the crop of the zero-indexed page
C15_Witness ==
    /\ RenderAndCropReturned
    /\ last.ok
    /\ last.call.page = NumPages
    /\ last.render = "render"
    /\ last.crop = "crop"
    /\ last.evidence.page = NumPages - 1
    /\ last.evidence.png_path.page = NumPages - 1
    /\ last.evidence.crop_path.page = NumPages - 1

\* C16: after the source changed and render_and_crop_roi rendered the full
\* page anew under the new key, the crop it returns for the same block, page,
\* dpi and bounding box was not cut from a render of an older source version.
C16_CropFollowsSourceVersion ==
    (/\ RenderAndCropReturned
     /\ last.ok
     /\ last.render = "render"
     /\ CropReturned(last.crop)) =>
        /\ path_exists(disk, last.evidence.crop_path)
        /\ origin_of(disk, last.evidence.crop_path) = last.call.mtime

----------------------------------------------------------------------------
\* Cold start: a manager constructed over a cache directory that holds files.

Tracks(cache, path) == \E i \in 1..Len(cache) : cache[i].path = path

\* C17: immediately after an EvidenceManager is constructed over a cache
\* directory that holds PNG files, every file of the renders directory and
\* every file of the crops directory has an entry in the corresponding
\* mapping, and the running total equals the sum of size_bytes over the entries.
C17_ColdStartReload ==
    last.op = "__init__" =>
        /\ \A f \in disk : f.path.dir = "renders" => Tracks(render_cache, f.path)
        /\ \A f \in disk : f.path.dir = "crops" => Tracks(crop_cache, f.path)
        /\ current_cache_size = SumSizes(render_cache) + SumSizes(crop_cache)

\* C18: when render_pdf_page_to_png misses in memory and the file of the key
\* exists on disk (as after a restart), the call registers exactly one entry
\* for it and returns its path without rendering, writing or evicting, and
\* afterwards the file's bytes are counted once in the running total: the
\* total is the sum of the sizes of the files on disk.
C18_AdoptionCountsOnce ==
    (RenderPageReturned /\ last.how = "adopt") =>
        /\ path_exists(disk, last.path)
        /\ Cardinality({i \in 1..Len(render_cache) :
                            render_cache[i].path = last.path}) = 1
        /\ last.wr = <<>>
        /\ last.ev = <<>>
        /\ current_cache_size = SumFileSizes(disk)

----------------------------------------------------------------------------
\* Bounding boxes and pixel rectangles of crop_png.

Clamp01(v) == Max(0, Min(100000, v))

ValidBox(b) ==
    /\ 0 <= b[1] /\ b[1] < b[3] /\ b[3] <= 100000
    /\ 0 <= b[2] /\ b[2] < b[4] /\ b[4] <= 100000

\* crop_png got as far as correcting the bounding box of its call
BoxCorrected == last.op = "crop_png" /\ last.box # <<>>

\* C19: crop_png clamps each coordinate into [0, 1]; then if x0 >= x1 the
\* x-range becomes (0, 1) and, independently, if y0 >= y1 the y-range becomes
\* (0, 1); a box with 0 <= x0 < x1 <= 1 and 0 <= y0 < y1 <= 1 is unchanged.
\* For every input the corrected box satisfies 0 <= x0 < x1 <= 1 and
\* 0 <= y0 < y1 <= 1, and (0.6, 0.1, 0.2, 0.9) becomes (0.0, 0.1, 1.0, 0.9).
C19_BBoxCorrection ==
    BoxCorrected =>
        LET in == last.call.box
            out == last.box
            x0 == Clamp01(in[1])
            y0 == Clamp01(in[2])
            x1 == Clamp01(in[3])
            y1 == Clamp01(in[4])
        IN
        /\ ValidBox(out)
        /\ ValidBox(in) => out = in
        /\ x0 >= x1 => (out[1] = 0 /\ out[3] = 100000)
        /\ x0 < x1 => (out[1] = x0 /\ out[3] = x1)
        /\ y0 >= y1 => (out[2] = 0 /\ out[4] = 100000)
        /\ y0 < y1 => (out[2] = y0 /\ out[4] = y1)
        /\ in = <<60000, 10000, 20000, 90000>> => out = <<0, 10000, 100000, 90000>>
        /\ last.ok => last.path.box = <<fmt4(out[1]), fmt4(out[2]), fmt4(out[3]), fmt4(out[4])>>

\* crop_png cut the box (0.6, 0.1, 0.2, 0.9), inverted in x, as (0, 0.1, 1, 0.9)
C19_Witness ==
    /\ BoxCorrected
    /\ last.ok
    /\ last.how = "crop"
    /\ last.call.box = <<60000, 10000, 20000, 90000>>
    /\ last.box = <<0, 10000, 100000, 90000>>
    /\ last.path.box = <<0, 1000, 10000, 9000>>

\* C20: for every full-page image of at least 10x10 pixels and every bounding
\* box, the pixel rectangle crop_png cuts is at least 10 pixels wide and at
\* least 10 pixels high.
C20_MinimumCropSize ==
    (last.op = "crop_png" /\ last.rect # <<>>) =>
        /\ last.rect[3] - last.rect[1] >= 10
        /\ last.rect[4] - last.rect[2] >= 10

\* a pixel rectangle was computed: by crop_png on its way to a new crop, or alone
RectComputed == last.op \in {"crop_png", "pixel_rect"} /\ last.rect # <<>>

\* n = floor(x * extent) for a coordinate x in units of 1/100000
IsFloorOf(n, x, extent) == n * 100000 <= x * extent /\ x * extent < (n + 1) * 100000

\* C21: for every image of width w >= 1 and height h >= 1 and every bounding
\* box, the pixel rectangle crop_png uses satisfies 0 <= left < right <= w and
\* 0 <= top < bottom <= h (inside the image, never empty), and the minimum-size
\* adjustment moves only right and bottom: left = floor(x0 * w) and
\* top = floor(y0 * h) of the corrected box.
C21_CropRectangleValid ==
    RectComputed =>
        LET w == last.img[1]
            h == last.img[2]
            left == last.rect[1]
            top == last.rect[2]
            right == last.rect[3]
            bottom == last.rect[4]
        IN
        /\ w >= 1 /\ h >= 1
        /\ 0 <= left /\ left < right /\ right <= w
        /\ 0 <= top /\ top < bottom /\ bottom <= h
        /\ IsFloorOf(left, last.box[1], w)
        /\ IsFloorOf(top, last.box[2], h)

\* on a 12 x 5 image the box (0.9, 0.9, 1.2, 1.0) starts at pixel (10, 4); both
\* edges are extended and clamped: the rectangle is (10, 4, 12, 5)
C21_Witness ==
    /\ RectComputed
    /\ last.img = <<12, 5>>
    /\ last.call.box = <<90000, 90000, 120000, 100000>>
    /\ last.rect = <<10, 4, 12, 5>>

----------------------------------------------------------------------------
\* Properties of clear_cache and cleanup_old_versions.

\* C22: after clear_cache both mappings are empty and the running total is 0;
\* the return value is the number of files actually deleted; a file whose
\* deletion fails stays, the call returns all the same and every other file
\* is deleted; when no deletion fails no file is left in the cache directory.
C22_ClearCache ==
    [][last'.op = "clear_cache" =>
          /\ render_cache' = <<>>
          /\ crop_cache' = <<>>
          /\ current_cache_size' = 0
          /\ PathsOn(disk') \subseteq PathsOn(disk)
          /\ last'.ok
          /\ last'.deleted = Cardinality(PathsOn(disk) \ PathsOn(disk'))
          /\ faults' = faults => disk' = {}
          /\ faults' # faults => Cardinality(disk') = faults' - faults]_vars

\* clear_cache met a file it could not delete, deleted another one and returned
C22_Witness ==
    /\ last.op = "clear_cache"
    /\ last.deleted >= 1
    /\ disk # {}
    /\ faults = 1
    /\ render_cache = <<>> /\ crop_cache = <<>> /\ current_cache_size = 0

Renders(d) == {f \in d : f.path.dir = "renders"}

Group(d, f) == {h \in d : SameGroup(h.path, f.path)}

\* C23: without deletion errors, after cleanup_old_versions exactly one render
\* file is left for each (block, page, dpi) base key that had any, the one with
\* the most recent st_mtime; a group of one file and all crop files are
\* untouched; the return value is the number of files deleted and the running
\* total went down by exactly the sum of their sizes.
C23_CleanupKeepsNewest ==
    [][(last'.op = "cleanup_old_versions" /\ src' = src) =>
          LET gone == {f \in disk : f.path \notin PathsOn(disk')} IN
          /\ PathsOn(disk') \subseteq PathsOn(disk)
          /\ \A f \in Renders(disk) :
                /\ Cardinality({h \in Group(disk, f) : h.path \in PathsOn(disk')}) = 1
                /\ f.path \in PathsOn(disk') <=> \A h \in Group(disk, f) : h.mtime <= f.mtime
                /\ Cardinality(Group(disk, f)) = 1 => f \in disk'
          /\ \A f \in disk : f.path.dir = "crops" => f \in disk'
          /\ \A f \in disk' : \E h \in disk : h.path = f.path /\ h.size = f.size
          /\ last'.deleted = Cardinality(gone)
          /\ current_cache_size' = current_cache_size - SumFileSizes(gone)]_vars

\* cleanup_old_versions deleted the older of two versions of a page; the crop
\* and the newer version are still there
C23_Witness ==
    /\ last.op = "cleanup_old_versions"
    /\ last.deleted = 1
    /\ current_cache_size = 3
    /\ \E f \in disk : f.path.dir = "crops"
    /\ \E f \in disk : f.path.dir = "renders" /\ f.path.ver = "28b38d77"
    /\ ~ \E f \in disk : f.path.dir = "renders" /\ f.path.ver = "a9752e41"

----------------------------------------------------------------------------
\* Properties of render_pdf_page_to_png and crop_png.

RenderPageStep == last'.op = "render_pdf_page_to_png" /\ src' = src

CacheUntouched ==
    UNCHANGED <<disk, render_cache, crop_cache, current_cache_size>>

\* the lookup of the call (block, page, dpi) finds neither a live entry nor a file
RenderMiss(c) ==
    /\ ~cache_hit(render_cache, disk, <<c.block, c.page, clamp_dpi(c.dpi), c.mtime>>)
    /\ ~path_exists(disk, get_versioned_cache_key(c.block, c.page, clamp_dpi(c.dpi), c.mtime))

\* C24: render_pdf_page_to_png on a source path that does not exist raises
\* FileNotFoundError, and on a miss with page >= len(doc) raises ValueError;
\* in both cases the two mappings, the running total and the files on disk
\* are as before the call.
C24_InputErrorsLeaveCacheUntouched ==
    [][RenderPageStep =>
          LET c == last'.call IN
          /\ ~c.exists =>
                /\ ~last'.ok /\ last'.how = "FileNotFoundError"
                /\ CacheUntouched /\ last'.ev = <<>> /\ last'.wr = <<>>
          /\ (c.exists /\ c.page >= NumPages /\ RenderMiss(c)) =>
                /\ ~last'.ok /\ last'.how = "ValueError"
                /\ CacheUntouched /\ last'.ev = <<>> /\ last'.wr = <<>>]_vars

\* a page out of range was asked for while the cache had no room for another
\* page: ValueError, and the tracked entries are still there
C24_Witness ==
    /\ last.op = "render_pdf_page_to_png"
    /\ ~last.ok /\ last.how = "ValueError"
    /\ last.call.page >= NumPages
    /\ render_cache # <<>>
    /\ current_cache_size + EstimatedSize("renders") > max_cache_size_bytes

CropPngStep == last'.op = "crop_png" /\ src' = src

\* the bytes that the evictions of a call took off the running total
RECURSIVE EvictedBytes(_)
EvictedBytes(ev) ==
    IF ev = <<>> THEN 0
    ELSE (IF Head(ev).existed THEN Head(ev).size_bytes ELSE 0) + EvictedBytes(Tail(ev))

\* C25: when pixmap.save in render_pdf_page_to_png or cropped.save in crop_png
\* fails, the call raises, no entry is registered under the key of the call,
\* and the running total is not increased: it is what the evictions of the
\* reservation left.
C25_FailedWritePropagates ==
    [][((RenderPageStep \/ CropPngStep) /\ faults' # faults /\ last'.how = "save") =>
          LET c == last'.call IN
          /\ ~last'.ok
          /\ current_cache_size' = current_cache_size - EvictedBytes(last'.ev)
          /\ current_cache_size' <= current_cache_size
          /\ RenderPageStep =>
                ~has_key(render_cache', <<c.block, c.page, clamp_dpi(c.dpi), c.mtime>>)
          /\ CropPngStep =>
                ~has_key(crop_cache',
                         get_crop_key(c.block, c.page, corrected_bbox(c.box), c.dpi))]_vars

\* cropped.save failed after the reservation had evicted an entry
C25_Witness ==
    /\ last.op = "crop_png"
    /\ ~last.ok /\ last.how = "save"
    /\ last.ev # <<>>
    /\ faults = 1

\* min(600, max(72, dpi))
ClampedDpi(dpi) == IF dpi < 72 THEN 72 ELSE IF dpi > 600 THEN 600 ELSE dpi

\* the two calls differ in nothing but the dpi
SameButDpi(c, d) == [c EXCEPT !.dpi = 0] = [d EXCEPT !.dpi = 0]

\* C26: render_pdf_page_to_png never fails because of the dpi: without I/O
\* failures it returns iff the source exists and the page is in range; the
\* dpi of the key and of the file name is min(600, max(72, dpi)); and a call
\* that differs from the call before it only in a dpi that clamps to the same
\* value is answered from the same entry with the same path.
C26_DpiClamping ==
    [][RenderPageStep =>
          LET c == last'.call
              dpi == ClampedDpi(c.dpi)
          IN
          /\ last'.ok <=> (c.exists /\ c.page < NumPages)
          /\ last'.ok =>
                /\ last'.path.dpi = dpi
                /\ path_exists(disk', last'.path)
                /\ \E i \in 1..Len(render_cache') :
                      /\ render_cache'[i].key = <<c.block, c.page, dpi, c.mtime>>
                      /\ render_cache'[i].path = last'.path
          /\ ( /\ last.op = "render_pdf_page_to_png" /\ last.ok
               /\ SameButDpi(last.call, c)
               /\ ClampedDpi(last.call.dpi) = dpi ) =>
                /\ last'.ok /\ last'.how = "hit"
                /\ last'.path = last.path
                /\ Len(render_cache') = Len(render_cache)
                /\ disk' = disk
                /\ current_cache_size' = current_cache_size]_vars

\* a call with dpi 900 was answered from the only entry, whose key and file
\* carry dpi 600
C26_Witness ==
    /\ last.op = "render_pdf_page_to_png"
    /\ last.ok /\ last.how = "hit"
    /\ last.call.dpi = 900
    /\ last.path.dpi = 600
    /\ Len(render_cache) = 1
    /\ render_cache[1].key[3] = 600

----------------------------------------------------------------------------
\* Properties of get_cache_stats.

\* C27: get_cache_stats can run concurrently with the other operations: when
\* a listed file is deleted by an eviction, a cleanup or clear_cache at any
\* point before its size is read, get_cache_stats counts it as 0 bytes and
\* returns; it never raises.
C27_StatsNeverRaises == stats.pc # "raised"

----------------------------------------------------------------------------
\* More properties of gather_evidence_for_rois.

\* 1 + include_full_page
PathsPerRoi == IF g.include_full_page THEN 2 ELSE 1

\* C28: len(evidence_paths) <= len(rois) * (1 + include_full_page): each ROI
\* adds at most one path when include_full_page is false and at most two when
\* it is true.  It holds after every ROI, and so at the return.
C28_EvidenceSizeBound ==
    /\ Len(g.evidence_paths) <= Len(g.rois) * PathsPerRoi
    /\ GatherReturned => Len(g.evidence_paths) <= g.n * PathsPerRoi
    /\ \A i \in 1..Len(g.outcomes) :
          PathsAfter(i) - g.outcomes[i].paths_before \in 0..PathsPerRoi

\* two ROIs on different pages, include_full_page set: four paths, the bound
C28_Witness ==
    /\ GatherReturned
    /\ g.n = 2
    /\ g.include_full_page
    /\ Len(g.evidence_paths) = 4

----------------------------------------------------------------------------
\* Properties of the reservation.

\* the last call was a render_pdf_page_to_png or crop_png that wrote its file
WroteFile ==
    /\ last.op \in {"render_pdf_page_to_png", "crop_png"}
    /\ last.ok
    /\ last.how \in {"render", "crop"}

\* the mapping a path is tracked in
CacheOf(path) == IF path.dir = "renders" THEN render_cache ELSE crop_cache

\* C29: on a miss the reservation is over before the file is written and its
\* entry registered: when the file is written the running total is at most
\* budget - estimate, or both mappings are empty; the written file's size is
\* added to that total; and the entry of the written file is in its mapping
\* after the call, not evicted by the call's own reservation.
C29_ReserveBeforeWrite ==
    WroteFile =>
        /\ \/ last.reserved.total <= max_cache_size_bytes - last.reserved.estimate
           \/ last.reserved.entries = 0
        /\ current_cache_size = last.reserved.total + st_size(disk, last.path)
        /\ \A i \in 1..Len(last.ev) :
              last.ev[i].total_before + last.reserved.estimate > max_cache_size_bytes
        /\ \E i \in 1..Len(CacheOf(last.path)) : CacheOf(last.path)[i].path = last.path

\* a crop was written after its reservation had evicted a crop and a page and
\* stopped with one entry left: 4 bytes tracked under a budget of 6
C29_Witness ==
    /\ WroteFile
    /\ last.how = "crop"
    /\ Len(last.ev) = 2
    /\ last.reserved.entries = 1
    /\ last.reserved.total = 4
    /\ max_cache_size_bytes = 6

Keys(cache) == {cache[i].key : i \in 1..Len(cache)}

\* nothing was evicted and nothing deleted in the step
NothingEvicted ==
    /\ last'.ev = <<>>
    /\ PathsOn(disk) \subseteq PathsOn(disk')
    /\ Keys(render_cache) \subseteq Keys(render_cache')
    /\ Keys(crop_cache) \subseteq Keys(crop_cache')

\* the size estimate of the call of the step
EstimateOf(op) ==
    IF op = "render_pdf_page_to_png" THEN EstimatedSize("renders")
    ELSE EstimatedSize("crops")

\* C30: a render_pdf_page_to_png or crop_png miss whose running total plus
\* size estimate is at most the budget evicts no entry and deletes no file,
\* and neither does an in-memory hit or the adoption of a file found on disk.
C30_NoNeedlessEviction ==
    [][(RenderPageStep \/ CropPngStep) =>
          /\ last'.how \in {"hit", "adopt"} => NothingEvicted
          /\ current_cache_size + EstimateOf(last'.op) <= max_cache_size_bytes
                => NothingEvicted]_vars

\* a crop was written next to a tracked page without any eviction: the total
\* and the estimate fitted the budget
C30_Witness ==
    /\ WroteFile
    /\ last.how = "crop"
    /\ last.ev = <<>>
    /\ render_cache # <<>>
    /\ last.reserved.total > 0
    /\ last.reserved.total + last.reserved.estimate <= max_cache_size_bytes

----------------------------------------------------------------------------
\* Properties of the eviction.

\* C31: _evict_lru_files terminates after removing at most as many entries as
\* were tracked when it started, and the write goes on whether or not the
\* target was reached: a render_pdf_page_to_png or crop_png call fails only
\* on a missing file, a page out of range or an I/O failure, never because of
\* the budget, and a miss that meets none of these writes its file.
C31_EvictionNeverBlocksWrite ==
    [][(RenderPageStep \/ CropPngStep) =>
          /\ Len(last'.ev) <= TrackedEntries
          /\ ~last'.ok => last'.how \in {"FileNotFoundError", "ValueError", "open", "save"}
          /\ last'.how \in {"open", "save"} => faults' # faults
          /\ last'.how = "FileNotFoundError" =>
                (RenderPageStep => ~last'.call.exists)
          /\ last'.how = "ValueError" => last'.call.page >= NumPages
          /\ last'.ok => path_exists(disk', last'.path)]_vars

\* a page was written under a budget smaller than its estimate: the
\* reservation evicted what there was and could not reach its target
C31_Witness ==
    /\ WroteFile
    /\ last.how = "render"
    /\ last.ev # <<>>
    /\ last.reserved.estimate > max_cache_size_bytes
    /\ last.reserved.entries = 0
    /\ last.reserved.total > max_cache_size_bytes - last.reserved.estimate

----------------------------------------------------------------------------
\* Properties of the LRU order.

\* the entries of a mapping other than `key`, in order, without their timestamps
Others(cache, key) ==
    LET rest == SelectSeq(cache, LAMBDA e : e.key # key)
    IN  [i \in 1..Len(rest) |-> <<rest[i].key, rest[i].path, rest[i].size_bytes>>]

\* the order of the last_accessed values of the entries other than `key`
AccessOrder(cache, key) ==
    LET rest == {e \in Range(cache) : e.key # key}
    IN  {<<q[1].key, q[2].key>> :
            q \in {r \in rest \X rest : r[1].last_accessed < r[2].last_accessed}}

\* the entry of `key` is the most recently used of its mapping: it is the last
\* one, and no other entry has a later last_accessed
MostRecentlyUsed(cache, key) ==
    /\ cache # <<>>
    /\ cache[Len(cache)].key = key
    /\ \A i \in 1..Len(cache) : cache[i].last_accessed <= cache[Len(cache)].last_accessed

\* the touch of `key` in `cache` (before) giving `cache1` (after)
Touched(cache, cache1, key) ==
    /\ MostRecentlyUsed(cache1, key)
    /\ Len(cache1) = Len(cache)
    /\ Others(cache1, key) = Others(cache, key)
    /\ AccessOrder(cache1, key) = AccessOrder(cache, key)

\* C32: on an in-memory hit of render_pdf_page_to_png or crop_png the entry
\* becomes the last (most recently used) entry of its own mapping; the
\* relative order of the other entries of that mapping, the other mapping,
\* the running total and the files on disk are unchanged.
C32_TouchOnHit ==
    [][((RenderPageStep \/ CropPngStep) /\ last'.how = "hit") =>
          LET c == last'.call IN
          /\ last'.ok
          /\ UNCHANGED <<disk, current_cache_size>>
          /\ RenderPageStep =>
                /\ Touched(render_cache, render_cache', RenderKey(c))
                /\ crop_cache' = crop_cache
          /\ CropPngStep =>
                /\ Touched(crop_cache, crop_cache', last'.path)
                /\ render_cache' = render_cache]_vars

\* a page that was not asked for by the call before was found in memory and
\* is now the last of two tracked pages
C32_Witness ==
    /\ last.op = "render_pdf_page_to_png"
    /\ last.how = "hit"
    /\ ~last.repeat
    /\ Len(render_cache) = 2
    /\ render_cache[2].path = last.path
    /\ render_cache[2].last_accessed > render_cache[1].last_accessed

\* the size_bytes of all entries a call evicted
RECURSIVE EvictedSizes(_)
EvictedSizes(ev) ==
    IF ev = <<>> THEN 0 ELSE Head(ev).size_bytes + EvictedSizes(Tail(ev))

\* the bytes a call added to the running total: the file it wrote or adopted
AddedBytes(d, l) ==
    IF l.ok /\ l.how \in {"render", "crop", "adopt"} THEN st_size(d, l.path) ELSE 0

\* C33: for every entry that the eviction of a render_pdf_page_to_png or
\* crop_png call removes from a mapping, the entry's file does not exist
\* afterwards and the running total has gone down by exactly the entry's
\* size_bytes, also when the file was already missing or its deletion raised
\* an I/O error.
C33_EvictionRemovesFileEntryBytes ==
    [][(RenderPageStep \/ CropPngStep) =>
          /\ \A i \in 1..Len(last'.ev) :
                /\ ~path_exists(disk', last'.ev[i].path)
                /\ ~Tracks(render_cache', last'.ev[i].path)
                /\ ~Tracks(crop_cache', last'.ev[i].path)
          /\ current_cache_size' = current_cache_size - EvictedSizes(last'.ev)
                                      + AddedBytes(disk', last')]_vars

----------------------------------------------------------------------------
\* More properties of cleanup_old_versions.

\* the in-memory index agrees with the disk: every tracked page exists, and
\* the running total is the sum of size_bytes over both mappings
IndexConsistent(d, rc, cc, total) ==
    /\ \A i \in 1..Len(rc) : path_exists(d, rc[i].path)
    /\ total = SumSizes(rc) + SumSizes(cc)

CleanupStep == last'.op = "cleanup_old_versions" /\ src' = src

\* C34: cleanup_old_versions keeps the in-memory index consistent with the
\* disk: called after render_pdf_page_to_png calls, in a state where every
\* tracked page exists and the running total is the sum of size_bytes over
\* the entries of both mappings, it leaves no entry of the full-page mapping
\* that refers to a file it deleted, and the running total still equals that sum.
C34_CleanupKeepsIndexConsistent ==
    [][(CleanupStep
        /\ IndexConsistent(disk, render_cache, crop_cache, current_cache_size)) =>
          IndexConsistent(disk', render_cache', crop_cache', current_cache_size')]_vars

----------------------------------------------------------------------------
\* More properties of render_and_crop_roi.

\* C35: the eviction inside crop_png never deletes the full-page render that
\* is being cropped: when render_and_crop_roi returns, the png_path of its
\* RenderedEvidence exists on disk and is tracked in the full-page mapping,
\* for every budget.
C35_CropKeepsSourcePage ==
    (RenderAndCropReturned /\ last.ok) =>
        /\ path_exists(disk, last.evidence.png_path)
        /\ Tracks(render_cache, last.evidence.png_path)

\* the key under which the last call looked up its mapping
KeyOfLast ==
    IF last.op = "render_pdf_page_to_png" THEN RenderKey(last.call) ELSE last.path

\* C36: after a render_pdf_page_to_png or crop_png call returned a path for
\* key k, the entry of k is the last (most recently used) entry of its
\* mapping, whether the call was a hit, an adoption, a first render or the
\* re-render of a key whose tracked file had been deleted, in every state
\* reached through render_pdf_page_to_png, crop_png, cleanup_old_versions and
\* clear_cache.
C36_ReturnedEntryIsMostRecent ==
    (last.op \in {"render_pdf_page_to_png", "crop_png"} /\ last.ok) =>
        LET cache == CacheOf(last.path) IN
        /\ cache # <<>>
        /\ cache[Len(cache)].key = KeyOfLast

\* the render file of the page for the current st_mtime of its source
IsCurrentVersion(f) ==
    /\ f.path.dir = "renders"
    /\ f.path = get_versioned_cache_key(f.path.block, f.path.page, f.path.dpi,
                                         src[f.path.block])

\* C37: cleanup_old_versions never deletes the current version: a render file
\* that belongs to the current st_mtime of its source and is on disk before
\* the call is on disk after it, for every order in which the versions were
\* rendered and every sequence of source changes, also one that returns to
\* an earlier st_mtime.
C37_CleanupKeepsCurrentVersion ==
    [][CleanupStep =>
          \A f \in disk : IsCurrentVersion(f) => path_exists(disk', f.path)]_vars

----------------------------------------------------------------------------
\* Completeness of gather_evidence_for_rois.

\* C38: no region is silently dropped: when gather_evidence_for_rois returns,
\* every ROI of the list was processed, and each one either added a warning
\* (missing block, failure or fallback) or has the crop path resolved for it
\* in evidence_paths, possibly put there by an earlier identical ROI.
C38_NoRegionDropped ==
    GatherReturned =>
        /\ last.ok
        /\ Len(g.outcomes) = g.n
        /\ \A i \in 1..Len(g.outcomes) :
              \/ WarningsAfter(i) > g.outcomes[i].warnings_before
              \/ /\ g.outcomes[i].crop_path.dir = "crops"
                 /\ g.outcomes[i].crop_path \in Range(g.evidence_paths)

\* the second of two ROIs resolved to the crop of the first: it added neither
\* a path nor a warning, and its crop is in evidence_paths
C38_Witness ==
    /\ GatherReturned
    /\ g.n = 2
    /\ g.warnings = <<>>
    /\ g.outcomes[2].kind = "ok"
    /\ PathsAfter(2) = g.outcomes[2].paths_before
    /\ g.outcomes[2].crop_path = g.outcomes[1].crop_path
    /\ g.outcomes[2].crop_path \in Range(g.evidence_paths)

====
